---- MODULE Spec2Model ----
(***************************************************************************)
(* Model of scripts/generate_appcast_from_changelog.py: the changelog      *)
(* reader, the markdown renderer and the appcast (feed) reconciler         *)
(* update_appcast, together with the persisted appcast file it reads and   *)
(* rewrites on every run.                                                  *)
(*                                                                         *)
(* Text is a sequence of units.  A unit is a one-character string for the  *)
(* markup-significant characters, or a longer string standing for a run of *)
(* ordinary characters.  On disk a markup-significant character of an      *)
(* escaped text is the entity unit html.escape writes for it.              *)
(***************************************************************************)
EXTENDS Integers, Sequences, FiniteSets, TLC

VARIABLES
    appcast,    \* the persisted feed file at appcast_path
    changelog,  \* the file at changelog_path
    now,        \* the clock
    runs,       \* runs of main so far
    completed,  \* runs in which update_appcast returned
    initial,    \* the feed file before the first run
    last,       \* the last run: arguments, the file before it, its status
    doc,        \* the markdown text handed to a renderer, as lines
    rendered,   \* what was rendered from doc, and by which function
    swift_file, \* Notimanager/Managers/NotificationMover.swift on disk
    content,    \* cleanup_notification_mover.py: the text being cleaned
    method,     \* its position in methods_to_remove, 0 before the file is read
    removed_count,
    original    \* the swift file before the cleanup

cleanupVars == <<swift_file, content, method, removed_count, original>>

vars == <<appcast, changelog, now, runs, completed, initial, last, doc, rendered,
          swift_file, content, method, removed_count, original>>

-----------------------------------------------------------------------------
(* Bounds *)

MaxRuns == 2

MaxClock == 1

\* lines of a rendered text
MaxLines == 3

\* members of the class in the swift file
MaxMembers == 3

-----------------------------------------------------------------------------
(* Sequence helpers *)

RECURSIVE Flatten(_)
Flatten(ss) == IF ss = <<>> THEN <<>> ELSE Head(ss) \o Flatten(Tail(ss))

IndexOfFirst(s, P(_)) ==
    IF \E i \in 1..Len(s) : P(s[i])
    THEN CHOOSE i \in 1..Len(s) : P(s[i]) /\ \A j \in 1..(i - 1) : ~P(s[j])
    ELSE 0

SelectTag(s, tag) == SelectSeq(s, LAMBDA e : e.tag = tag)

-----------------------------------------------------------------------------
(* html.escape(s, quote=True) and the decoding the XML parser applies *)

escape(t) ==
    [i \in 1..Len(t) |->
        CASE t[i] = "&" -> "&amp;"
          [] t[i] = "<" -> "&lt;"
          [] t[i] = ">" -> "&gt;"
          [] t[i] = "\"" -> "&quot;"
          [] t[i] = "'" -> "&#x27;"
          [] OTHER -> t[i]]

XmlDecode(t) ==
    [i \in 1..Len(t) |->
        CASE t[i] = "&amp;" -> "&"
          [] t[i] = "&lt;" -> "<"
          [] t[i] = "&gt;" -> ">"
          [] t[i] = "&quot;" -> "\""
          [] t[i] = "&#x27;" -> "'"
          [] OTHER -> t[i]]

HasCDEnd(t) ==
    \E i \in 1..(Len(t) - 2) : t[i] = "]" /\ t[i + 1] = "]" /\ t[i + 2] = ">"

\* character data between tags: no bare '&' or '<', no "]]>"
CharDataOk(t) ==
    /\ \A i \in 1..Len(t) : t[i] \notin {"&", "<"}
    /\ ~HasCDEnd(t)

\* a double-quoted attribute value: no bare '&', '<' or '"'
AttValueOk(t) == \A i \in 1..Len(t) : t[i] \notin {"&", "<", "\""}

-----------------------------------------------------------------------------
(* The appcast file.  [exists, bytes]: bytes is the sequence of pieces the  *)
(* file holds, one piece per element or tag line.  A piece is              *)
(* [t, text, an, av]: the tag, the encoded text, the attribute names and   *)
(* the encoded attribute values.                                           *)

Piece(t, text, an, av) == [t |-> t, text |-> text, an |-> an, av |-> av]

Tag(t) == Piece(t, <<>>, <<>>, <<>>)

Leaf(t, text) == Piece(t, text, <<>>, <<>>)

SparkleUri == <<"http://www.andymatuschak.org/xml-namespaces/sparkle">>

XmlDecl == Tag("?xml")

RssOpen == Piece("rss", <<>>, <<"xmlns:sparkle", "version">>, <<SparkleUri, <<"2.0">> >>)

AbsentFile == [exists |-> FALSE, bytes |-> <<>>]

FileOf(bytes) == [exists |-> TRUE, bytes |-> bytes]

\* an element of the in-memory tree: [tag, text, kids, an, av]; text = <<>>
\* is ElementTree's text None
Elem(tag, text, kids, an, av) ==
    [tag |-> tag, text |-> text, kids |-> kids, an |-> an, av |-> av]

Attr(e, name, default) ==
    IF \E i \in 1..Len(e.an) : e.an[i] = name
    THEN e.av[CHOOSE i \in 1..Len(e.an) : e.an[i] = name]
    ELSE default

HasAttr(e, name) == \E i \in 1..Len(e.an) : e.an[i] = name

\* Element.find(tag): the first direct child with that tag, or None
HasChild(e, tag) == \E i \in 1..Len(e.kids) : e.kids[i].tag = tag

Find(e, tag) == e.kids[IndexOfFirst(e.kids, LAMBDA k : k.tag = tag)]

-----------------------------------------------------------------------------
(* ET.parse(appcast_path): the pieces of the file to the element tree.      *)
(* Prefixed names resolve to the sparkle namespace when the root declares  *)
(* the prefix; an undeclared prefix, a stray markup character, an          *)
(* unterminated or misnested element is a ParseError.                      *)

PrefixedNames == {"sparkle:version", "sparkle:shortVersionString",
                  "sparkle:minimumSystemVersion", "sparkle:edSignature"}

QName(n) ==
    CASE n = "sparkle:version" -> "{sparkle}version"
      [] n = "sparkle:shortVersionString" -> "{sparkle}shortVersionString"
      [] n = "sparkle:minimumSystemVersion" -> "{sparkle}minimumSystemVersion"
      [] n = "sparkle:edSignature" -> "{sparkle}edSignature"
      [] OTHER -> n

NsNames == {"{sparkle}version", "{sparkle}shortVersionString",
            "{sparkle}minimumSystemVersion", "{sparkle}edSignature"}

StructureTags == {"?xml", "rss", "/rss", "channel", "/channel", "item", "/item"}

\* one leaf element <t a="v"...>text</t> is well formed
LeafOk(p, declared) ==
    /\ p.t \notin StructureTags \cup {"garbage"}
    /\ (p.t \in PrefixedNames => declared)
    /\ \A i \in 1..Len(p.an) : /\ (p.an[i] \in PrefixedNames => declared)
                               /\ AttValueOk(p.av[i])
    /\ IF p.t = "description[CDATA]" THEN ~HasCDEnd(p.text) ELSE CharDataOk(p.text)

LeafElem(p) ==
    IF p.t = "description[CDATA]"
    THEN Elem("description", p.text, <<>>, <<>>, <<>>)
    ELSE Elem(QName(p.t), XmlDecode(p.text), <<>>,
              [i \in 1..Len(p.an) |-> QName(p.an[i])],
              [i \in 1..Len(p.av) |-> XmlDecode(p.av[i])])

\* the leaves from position i up to the closing piece `close`
RECURSIVE ParseLeaves(_, _, _, _, _)
ParseLeaves(bytes, i, close, declared, acc) ==
    IF i > Len(bytes) THEN [ok |-> FALSE, next |-> i, kids |-> acc]
    ELSE IF bytes[i].t = close THEN [ok |-> TRUE, next |-> i + 1, kids |-> acc]
    ELSE IF ~LeafOk(bytes[i], declared) THEN [ok |-> FALSE, next |-> i, kids |-> acc]
    ELSE ParseLeaves(bytes, i + 1, close, declared, Append(acc, LeafElem(bytes[i])))

\* the children of <channel> from position i up to </channel>
RECURSIVE ParseChannel(_, _, _, _)
ParseChannel(bytes, i, declared, acc) ==
    IF i > Len(bytes) THEN [ok |-> FALSE, next |-> i, kids |-> acc]
    ELSE IF bytes[i].t = "/channel" THEN [ok |-> TRUE, next |-> i + 1, kids |-> acc]
    ELSE IF bytes[i].t = "item"
    THEN LET r == ParseLeaves(bytes, i + 1, "/item", declared, <<>>)
         IN  IF r.ok
             THEN ParseChannel(bytes, r.next, declared,
                               Append(acc, Elem("item", <<>>, r.kids, <<>>, <<>>)))
             ELSE [ok |-> FALSE, next |-> r.next, kids |-> acc]
    ELSE IF ~LeafOk(bytes[i], declared) THEN [ok |-> FALSE, next |-> i, kids |-> acc]
    ELSE ParseChannel(bytes, i + 1, declared, Append(acc, LeafElem(bytes[i])))

\* [ok, root]: root is the <rss> element; its kids are at most one channel.
\* The xmlns:sparkle declaration is consumed by the parser and is not an
\* attribute of the parsed root.
ParseError == [ok |-> FALSE, root |-> Elem("rss", <<>>, <<>>, <<>>, <<>>)]

ET_parse(bytes) ==
    LET b == IF bytes # <<>> /\ Head(bytes).t = "?xml" THEN Tail(bytes) ELSE bytes
    IN  IF Len(b) < 2 \/ b[1].t # "rss" \/ b[Len(b)].t # "/rss" THEN ParseError
        ELSE LET declared == \E i \in 1..Len(b[1].an) : b[1].an[i] = "xmlns:sparkle"
                 rootAn == SelectSeq(b[1].an, LAMBDA n : n # "xmlns:sparkle")
                 keep == SelectSeq([i \in 1..Len(b[1].an) |-> i],
                                   LAMBDA i : b[1].an[i] # "xmlns:sparkle")
                 rootAv == [k \in 1..Len(keep) |-> XmlDecode(b[1].av[keep[k]])]
             IN  IF Len(b) = 2
                 THEN [ok |-> TRUE, root |-> Elem("rss", <<>>, <<>>, rootAn, rootAv)]
                 ELSE IF b[2].t # "channel" THEN ParseError
                 ELSE LET r == ParseChannel(b, 3, declared, <<>>)
                      IN  IF r.ok /\ r.next = Len(b)
                          THEN [ok |-> TRUE,
                                root |-> Elem("rss", <<>>,
                                              <<Elem("channel", <<>>, r.kids, <<>>, <<>>)>>,
                                              rootAn, rootAv)]
                          ELSE ParseError

-----------------------------------------------------------------------------
(* The changelog.  [exists, lines]; a line is [k, ver, date, text]:        *)
(*   "ver"    ## [ver] - YYYY-MM-DD   (date = <<y, m, d>>)                 *)
(*   "unrel"  ## [Unreleased]                                              *)
(*   "h2"     any other "## " line                                         *)
(*   "sub"    ### text                                                     *)
(*   "bullet" - text  or  * text, optionally indented                      *)
(*   "blank"  empty or whitespace only                                     *)
(*   "para"   anything else                                                *)

Line(k, ver, date, text) == [k |-> k, ver |-> ver, date |-> date, text |-> text]

NoDate == <<0, 0, 0>>

VerLine(ver, date) == Line("ver", ver, date, <<>>)

UnrelLine == Line("unrel", <<>>, NoDate, <<>>)

SubLine(text) == Line("sub", <<>>, NoDate, text)

BulletLine(text) == Line("bullet", <<>>, NoDate, text)

BlankLine == Line("blank", <<>>, NoDate, <<>>)

ParaLine(text) == Line("para", <<>>, NoDate, text)

H2Line(text) == Line("h2", <<>>, NoDate, text)

\* str.strip() of a text: whitespace at its two ends is the unit " "
RECURSIVE lstrip(_)
lstrip(t) == IF t # <<>> /\ Head(t) = " " THEN lstrip(Tail(t)) ELSE t

RECURSIVE rstrip(_)
rstrip(t) == IF t # <<>> /\ t[Len(t)] = " " THEN rstrip(SubSeq(t, 1, Len(t) - 1)) ELSE t

strip(t) == rstrip(lstrip(t))

\* re.search(r'^## \[version\] - \d{4}-\d{2}-\d{2}', content, re.MULTILINE)
VersionMatch(lines, version) ==
    IndexOfFirst([i \in 1..Len(lines) |-> [i |-> i, l |-> lines[i]]],
                 LAMBDA e : e.l.k = "ver" /\ e.l.ver = version)

\* r'^## \[' matches the line: a version header, the unreleased header, or
\* another level-2 header whose text starts with a bracket
BracketHeader(l) ==
    \/ l.k \in {"ver", "unrel"}
    \/ l.k = "h2" /\ l.text # <<>> /\ Head(l.text) = "["

\* re.search(r'^## \[', content[start_pos:], re.MULTILINE): the index of the
\* next bracketed level-2 header after line `start`, or Len(lines) + 1
NextHeader(lines, start) ==
    IF \E j \in (start + 1)..Len(lines) : BracketHeader(lines[j])
    THEN CHOOSE j \in (start + 1)..Len(lines) :
            /\ BracketHeader(lines[j])
            /\ \A i \in (start + 1)..(j - 1) : ~BracketHeader(lines[i])
    ELSE Len(lines) + 1

\* str.strip() of the body, then split('\n'): blank lines at both ends go;
\* an empty body splits into one empty line
RECURSIVE StripLeft(_)
StripLeft(ls) ==
    IF ls # <<>> /\ Head(ls).k = "blank" THEN StripLeft(Tail(ls)) ELSE ls

RECURSIVE StripRight(_)
StripRight(ls) ==
    IF ls # <<>> /\ ls[Len(ls)].k = "blank"
    THEN StripRight(SubSeq(ls, 1, Len(ls) - 1)) ELSE ls

StripLines(ls) ==
    LET r == StripRight(StripLeft(ls)) IN IF r = <<>> THEN <<BlankLine>> ELSE r

-----------------------------------------------------------------------------
(* markdown_to_html of generate_appcast_from_changelog.py *)

\* re.sub(mark (.*?) mark, open \1 close, text): successive pairs of the
\* marker, left to right; an unpaired last marker stays
RECURSIVE PairSub(_, _, _, _)
PairSub(t, mark, open, close) ==
    LET i == IndexOfFirst(t, LAMBDA u : u = mark)
    IN  IF i = 0 THEN t
        ELSE LET rest == SubSeq(t, i + 1, Len(t))
                 j == IndexOfFirst(rest, LAMBDA u : u = mark)
             IN  IF j = 0 THEN t
                 ELSE SubSeq(t, 1, i - 1) \o <<open>> \o SubSeq(rest, 1, j - 1)
                      \o <<close>>
                      \o PairSub(SubSeq(rest, j + 1, Len(rest)), mark, open, close)

\* the unit "BACKTICK" is the character U+0060
InlineSubs(t) == PairSub(PairSub(t, "**", "<strong>", "</strong>"), "BACKTICK", "<code>", "</code>")

\* the first loop with a paragraph for every other line
HtmlLine_keeps_others(l) ==
    CASE l.k = "sub" -> << <<"<h4>">> \o escape(strip(l.text)) \o <<"</h4>">> >>
      [] l.k = "bullet" -> << <<"<li>">> \o InlineSubs(strip(l.text)) \o <<"</li>">> >>
      [] l.k = "blank" -> << <<>> >>
      [] OTHER -> << <<"<p>">> \o escape(l.text) \o <<"</p>">> >>

\* first loop: one html line per recognized input line, none for the others
HtmlLine(l) ==
    CASE l.k = "sub" -> << <<"<h4>">> \o escape(strip(l.text)) \o <<"</h4>">> >>
      [] l.k = "bullet" -> << <<"<li>">> \o InlineSubs(strip(l.text)) \o <<"</li>">> >>
      [] l.k = "blank" -> << <<>> >>
      [] OTHER -> <<>>

HtmlLines(lines) == Flatten([i \in 1..Len(lines) |-> HtmlLine(lines[i])])

IsLi(line) == line # <<>> /\ line[1] = "<li>"

\* the second loop with a blank line closing the open list
RECURSIVE WrapLists_blank_closes(_, _)
WrapLists_blank_closes(hl, in_list) ==
    IF hl = <<>> THEN (IF in_list THEN << <<"</ul>">> >> ELSE <<>>)
    ELSE LET line == Head(hl)
         IN  IF IsLi(line)
             THEN (IF ~in_list THEN << <<"<ul>">> >> ELSE <<>>)
                  \o <<line>> \o WrapLists_blank_closes(Tail(hl), TRUE)
             ELSE (IF in_list THEN << <<"</ul>">> >> ELSE <<>>)
                  \o <<line>> \o WrapLists_blank_closes(Tail(hl), FALSE)

\* second loop: wrap runs of <li> lines in <ul> ... </ul>
RECURSIVE WrapLists(_, _)
WrapLists(hl, in_list) ==
    IF hl = <<>> THEN (IF in_list THEN << <<"</ul>">> >> ELSE <<>>)
    ELSE LET line == Head(hl)
         IN  IF IsLi(line)
             THEN (IF ~in_list THEN << <<"<ul>">> >> ELSE <<>>)
                  \o <<line>> \o WrapLists(Tail(hl), TRUE)
             ELSE IF line # <<>>
             THEN (IF in_list THEN << <<"</ul>">> >> ELSE <<>>)
                  \o <<line>> \o WrapLists(Tail(hl), FALSE)
             ELSE << <<>> >> \o WrapLists(Tail(hl), in_list)

\* '\n'.join(result)
RECURSIVE Join(_)
Join(ls) ==
    IF ls = <<>> THEN <<>>
    ELSE IF Len(ls) = 1 THEN ls[1]
    ELSE ls[1] \o <<"\n">> \o Join(Tail(ls))

markdown_to_html(lines) == Join(WrapLists(HtmlLines(lines), FALSE))

-----------------------------------------------------------------------------
(* markdown_to_html of markdown_to_html.py, the standalone converter *)

\* line 83: replace('&', ...).replace('<', ...).replace('>', ...)
escaped(t) ==
    [i \in 1..Len(t) |->
        CASE t[i] = "&" -> "&amp;"
          [] t[i] = "<" -> "&lt;"
          [] t[i] = ">" -> "&gt;"
          [] OTHER -> t[i]]

\* str.strip('[]'): bracket characters at the two ends
RECURSIVE StripBrackets(_)
StripBrackets(t) ==
    IF t # <<>> /\ Head(t) \in {"[", "]"} THEN StripBrackets(Tail(t))
    ELSE IF t # <<>> /\ t[Len(t)] \in {"[", "]"}
    THEN StripBrackets(SubSeq(t, 1, Len(t) - 1))
    ELSE t

\* a unit that is " - YYYY-MM-DD", as r'\s*-\s*\d{4}-\d{2}-\d{2}' matches it
DateUnits == {" - 2026-01-01", "-2026-01-18"}

\* lines 41-44: the header text without brackets at its ends and without dates
HeaderFallback(t) ==
    strip(SelectSeq(StripBrackets(t), LAMBDA u : u \notin DateUnits))

\* lines 77-79: the lines of the changelog preamble
DescriptionLines ==
    {<<"All notable changes to Notimanager will be documented in this file.">>,
     <<"The format is based on ", "[", "Keep a Changelog", "]">>,
     <<"and this project adheres to ", "[", "Semantic Versioning", "]", ".">>}

\* lines 71-80: a line that starts like a date, or a preamble line
SkippedLine(t) ==
    \/ lstrip(t) # <<>> /\ Head(lstrip(t)) \in DateUnits
    \/ t \in DescriptionLines

\* the first loop without the inline-code substitution of line 60
StandaloneHtmlLine_no_code(l) ==
    CASE l.k = "unrel" -> <<>>
      [] l.k = "ver" -> << <<"<h3>", "Version ">> \o l.ver \o <<"</h3>">> >>
      [] l.k = "h2" ->
            IF \E i \in 1..Len(l.text) : l.text[i] = "Unreleased" THEN <<>>
            ELSE << <<"<h3>">> \o HeaderFallback(strip(l.text)) \o <<"</h3>">> >>
      [] l.k = "sub" -> << <<"<h4>">> \o strip(l.text) \o <<"</h4>">> >>
      [] l.k = "bullet" ->
            << <<"<li>">> \o PairSub(strip(l.text), "**", "<strong>", "</strong>")
               \o <<"</li>">> >>
      [] l.k = "blank" -> << <<>> >>
      [] OTHER -> IF SkippedLine(l.text) THEN <<>>
                  ELSE << <<"<p>">> \o escaped(l.text) \o <<"</p>">> >>

\* first loop, lines 24-84
StandaloneHtmlLine(l) ==
    CASE l.k = "unrel" -> <<>>
      [] l.k = "ver" -> << <<"<h3>", "Version ">> \o l.ver \o <<"</h3>">> >>
      [] l.k = "h2" ->
            IF \E i \in 1..Len(l.text) : l.text[i] = "Unreleased" THEN <<>>
            ELSE << <<"<h3>">> \o HeaderFallback(strip(l.text)) \o <<"</h3>">> >>
      [] l.k = "sub" -> << <<"<h4>">> \o strip(l.text) \o <<"</h4>">> >>
      [] l.k = "bullet" -> << <<"<li>">> \o InlineSubs(strip(l.text)) \o <<"</li>">> >>
      [] l.k = "blank" -> << <<>> >>
      [] OTHER -> IF SkippedLine(l.text) THEN <<>>
                  ELSE << <<"<p>">> \o escaped(l.text) \o <<"</p>">> >>

StandaloneHtmlLines(lines) == Flatten([i \in 1..Len(lines) |-> StandaloneHtmlLine(lines[i])])

\* the second loop without the closing of lines 104-105
RECURSIVE StandaloneWrapLists_unclosed(_, _)
StandaloneWrapLists_unclosed(hl, in_list) ==
    IF hl = <<>> THEN <<>>
    ELSE LET line == Head(hl)
         IN  IF IsLi(line)
             THEN (IF ~in_list THEN << <<"<ul>">> >> ELSE <<>>)
                  \o <<line>> \o StandaloneWrapLists_unclosed(Tail(hl), TRUE)
             ELSE IF line # <<>>
             THEN (IF in_list THEN << <<"</ul>">> >> ELSE <<>>)
                  \o <<line>> \o StandaloneWrapLists_unclosed(Tail(hl), FALSE)
             ELSE << <<>> >> \o StandaloneWrapLists_unclosed(Tail(hl), in_list)

\* second loop, lines 86-105
RECURSIVE StandaloneWrapLists(_, _)
StandaloneWrapLists(hl, in_list) ==
    IF hl = <<>> THEN (IF in_list THEN << <<"</ul>">> >> ELSE <<>>)
    ELSE LET line == Head(hl)
         IN  IF IsLi(line)
             THEN (IF ~in_list THEN << <<"<ul>">> >> ELSE <<>>)
                  \o <<line>> \o StandaloneWrapLists(Tail(hl), TRUE)
             ELSE IF line # <<>>
             THEN (IF in_list THEN << <<"</ul>">> >> ELSE <<>>)
                  \o <<line>> \o StandaloneWrapLists(Tail(hl), FALSE)
             ELSE << <<>> >> \o StandaloneWrapLists(Tail(hl), in_list)

markdown_to_html_standalone(lines) ==
    Join(StandaloneWrapLists(StandaloneHtmlLines(lines), FALSE))

-----------------------------------------------------------------------------
(* get_release_notes and extract_version_date *)

NoNotes == <<"<p>", "No release notes available.", "</p>">>

DocHead == <<"<!DOCTYPE html>...<body>", "\n">>

DocTail == <<"\n", "</body>", "\n", "</html>">>

get_release_notes(cl, version) ==
    IF ~cl.exists THEN NoNotes
    ELSE LET m == VersionMatch(cl.lines, version)
         IN  IF m = 0 THEN NoNotes
             ELSE LET end == NextHeader(cl.lines, m)
                      body == StripLines(SubSeq(cl.lines, m + 1, end - 1))
                  IN  DocHead \o markdown_to_html(body) \o DocTail

\* the clock: instant n is day Day0 + n \div 2, morning or evening
Day0 == <<2026, 11, 3>>

Today(n) == <<Day0[1], Day0[2], Day0[3] + (n \div 2)>>

TimeOfDay(n) == IF n % 2 = 0 THEN "10:40:03" ELSE "18:05:59"

extract_version_date(cl, version, n) ==
    IF ~cl.exists THEN Today(n)
    ELSE LET m == VersionMatch(cl.lines, version)
         IN  IF m # 0 THEN cl.lines[m].date ELSE Today(n)

IsLeap(y) == (y % 4 = 0 /\ y % 100 # 0) \/ y % 400 = 0

DaysIn(y, m) ==
    IF m = 2 THEN (IF IsLeap(y) THEN 29 ELSE 28)
    ELSE IF m \in {4, 6, 9, 11} THEN 30 ELSE 31

\* datetime.strptime(date_str, '%Y-%m-%d') succeeds
ValidDate(d) ==
    /\ d[1] \in 1..9999
    /\ d[2] \in 1..12
    /\ d[3] \in 1..DaysIn(d[1], d[2])

DayNames == <<"Sun", "Mon", "Tue", "Wed", "Thu", "Fri", "Sat">>

MonthNames == <<"Jan", "Feb", "Mar", "Apr", "May", "Jun",
                "Jul", "Aug", "Sep", "Oct", "Nov", "Dec">>

WeekdayOf(d) ==
    LET t == <<0, 3, 2, 5, 0, 3, 5, 1, 4, 6, 2, 4>>
        y == IF d[2] < 3 THEN d[1] - 1 ELSE d[1]
    IN  (y + (y \div 4) - (y \div 100) + (y \div 400) + t[d[2]] + d[3]) % 7

Pad2(k) == IF k < 10 THEN "0" \o ToString(k) ELSE ToString(k)

\* strftime('%a, %d %b %Y %H:%M:%S +0000')
FormatDate(d, hms) ==
    <<DayNames[WeekdayOf(d) + 1] \o ", " \o Pad2(d[3]) \o " "
      \o MonthNames[d[2]] \o " " \o ToString(d[1]) \o " " \o hms \o " +0000">>

\* lines 253-261 with the captured date ignored
PubDate_now(cl, version, n) == FormatDate(Today(n), TimeOfDay(n))

PubDate(cl, version, n) ==
    LET date_str == extract_version_date(cl, version, n)
    IN  IF ValidDate(date_str) THEN FormatDate(date_str, "00:00:00")
        ELSE FormatDate(Today(n), TimeOfDay(n))

-----------------------------------------------------------------------------
(* update_appcast *)

Node(tag, text) == Elem(tag, text, <<>>, <<>>, <<>>)

\* lines 222-227 and 230-235: the new structure, with the namespace
\* declaration as a plain attribute of the root
NewRoot ==
    Elem("rss", <<>>, <<Node("channel", <<>>)>>,
         <<"xmlns:sparkle", "version">>, <<SparkleUri, <<"2.0">> >>)

\* lines 215-235
LoadRoot(file) ==
    IF file.exists /\ Len(file.bytes) > 0
    THEN LET r == ET_parse(file.bytes) IN IF r.ok THEN r.root ELSE NewRoot
    ELSE NewRoot

\* lines 238-245: the channel, created when missing, with a title, appended
\* when missing
GetChannel(root) ==
    LET channel == IF HasChild(root, "channel") THEN Find(root, "channel")
                   ELSE Node("channel", <<>>)
    IN  IF HasChild(channel, "title") THEN channel
        ELSE [channel EXCEPT !.kids = Append(@, Node("title", <<"Notimanager">>))]

\* lines 248-280.  The three version elements get the literal tag
\* "sparkle:..." and not a name in the sparkle namespace; the signature
\* attribute gets the namespaced name.
NewItem(version, url, signature, length, cl, n) ==
    Elem("item", <<>>,
         <<Node("title", version),
           Node("pubDate", PubDate(cl, version, n)),
           Node("sparkle:version", version),
           Node("sparkle:shortVersionString", version),
           Node("sparkle:minimumSystemVersion", <<"14.0">>),
           Node("description", get_release_notes(cl, version)),
           Elem("enclosure", <<>>, <<>>,
                <<"url", "length", "type">>
                  \o (IF signature # <<>> THEN <<"{sparkle}edSignature">> ELSE <<>>),
                <<url, length, <<"application/octet-stream">> >>
                  \o (IF signature # <<>> THEN <<signature>> ELSE <<>>))>>,
         <<>>, <<>>)

\* lines 283-288: channel.insert(title_idx + 1, item)
InsertItem(channel, item) ==
    LET title_idx == IndexOfFirst(channel.kids, LAMBDA k : k.tag = "title")
    IN  [channel EXCEPT !.kids = SubSeq(@, 1, title_idx) \o <<item>>
                                 \o SubSeq(@, title_idx + 1, Len(@))]

\* the tree after line 288: [root, channel]
BuildTree(file, version, url, signature, length, cl, n) ==
    LET root == LoadRoot(file)
        channel == InsertItem(GetChannel(root),
                              NewItem(version, url, signature, length, cl, n))
    IN  [root |-> [root EXCEPT !.kids = <<channel>>], channel |-> channel]

\* some element or attribute of the tree has a name in the sparkle namespace
RECURSIVE UsesNs(_)
UsesNs(e) ==
    \/ e.tag \in NsNames
    \/ \E i \in 1..Len(e.an) : e.an[i] \in NsNames
    \/ \E i \in 1..Len(e.kids) : UsesNs(e.kids[i])

\* some element of the tree has a literal prefixed tag
RECURSIVE UsesPrefix(_)
UsesPrefix(e) ==
    \/ e.tag \in PrefixedNames
    \/ \E i \in 1..Len(e.kids) : UsesPrefix(e.kids[i])

\* lines 292-297: minidom.parseString(ET.tostring(root)) succeeds.  tostring
\* declares xmlns:sparkle on the root when the tree uses the namespace; with
\* the plain attribute of NewRoot that is a duplicate attribute, and a
\* literal prefix with no declaration at all is an unbound prefix.
TostringParses(root) ==
    LET declaredByAttr == HasAttr(root, "xmlns:sparkle")
        declaredByNs == UsesNs(root)
    IN  /\ ~(declaredByAttr /\ declaredByNs)
        /\ (UsesPrefix(root) => declaredByAttr \/ declaredByNs)

\* A step of the writer: [crash, out].  The writes of a step reach the file
\* when the step does not raise.
Step(crash, out) == [crash |-> crash, out |-> out]

ChildText(e, tag) == IF HasChild(e, tag) THEN Find(e, tag).text ELSE <<>>

\* an optional sparkle element, lines 329-334: escape(elem.text) raises on None
OptStep(item, tag, name) ==
    IF HasChild(item, tag)
    THEN Step(ChildText(item, tag) = <<>>, <<Leaf(name, escape(ChildText(item, tag)))>>)
    ELSE Step(FALSE, <<>>)

EnclosurePiece(item_enc) ==
    LET enc_url == Attr(item_enc, "url", <<>>)
        enc_len == Attr(item_enc, "length", <<"0">>)
        enc_sig == Attr(item_enc, "{sparkle}edSignature", <<>>)
    IN  Piece("enclosure", <<>>,
              <<"url", "length", "type">>
                \o (IF enc_sig # <<>> THEN <<"sparkle:edSignature">> ELSE <<>>),
              <<escape(enc_url), escape(enc_len), <<"application/octet-stream">> >>
                \o (IF enc_sig # <<>> THEN <<escape(enc_sig)>> ELSE <<>>))

\* lines 315-353 for one item
ItemSteps(item) ==
    <<Step(~HasChild(item, "title") \/ ~HasChild(item, "pubDate"), <<Tag("item")>>),
      Step(ChildText(item, "title") = <<>>,
           <<Leaf("title", escape(ChildText(item, "title")))>>),
      Step(ChildText(item, "pubDate") = <<>>,
           <<Leaf("pubDate", escape(ChildText(item, "pubDate")))>>),
      OptStep(item, "{sparkle}version", "sparkle:version"),
      OptStep(item, "{sparkle}shortVersionString", "sparkle:shortVersionString"),
      OptStep(item, "{sparkle}minimumSystemVersion", "sparkle:minimumSystemVersion"),
      Step(~HasChild(item, "enclosure"),
           IF HasChild(item, "enclosure")
           THEN <<EnclosurePiece(Find(item, "enclosure"))>> ELSE <<>>),
      Step(~HasChild(item, "description"),
           <<Leaf("description[CDATA]", ChildText(item, "description")),
             Tag("/item")>>)>>

\* lines 304-356
WriteSteps(channel) ==
    LET items == SelectTag(channel.kids, "item")
    IN  <<Step(FALSE, <<XmlDecl, RssOpen, Tag("channel")>>),
          Step(ChildText(channel, "title") = <<>>,
               <<Leaf("title", escape(ChildText(channel, "title")))>>)>>
        \o Flatten([i \in 1..Len(items) |-> ItemSteps(items[i])])
        \o <<Step(FALSE, <<Tag("/channel"), Tag("/rss")>>)>>

\* what the steps leave in the file: [ok, bytes]
RECURSIVE RunSteps(_, _)
RunSteps(steps, acc) ==
    IF steps = <<>> THEN [ok |-> TRUE, bytes |-> acc]
    ELSE IF Head(steps).crash THEN [ok |-> FALSE, bytes |-> acc]
    ELSE RunSteps(Tail(steps), acc \o Head(steps).out)

\* [file, status]: the file after the call, and "ok" when the call returned,
\* "error" when it raised
update_appcast(file, version, url, signature, length, cl, n) ==
    LET t == BuildTree(file, version, url, signature, length, cl, n)
    IN  IF ~TostringParses(t.root) THEN [file |-> file, status |-> "error"]
        ELSE LET w == RunSteps(WriteSteps(t.channel), <<>>)
             IN  [file |-> FileOf(w.bytes),
                  status |-> IF w.ok THEN "ok" ELSE "error"]

-----------------------------------------------------------------------------
(* Inputs *)

V215 == <<"2.1.5">>

V214 == <<"2.1.4">>

V213 == <<"2.1.3">>

V999 == <<"9.9.9">>

Versions == {V215, V214, V213, V999}

Url == <<"https://example.com/Notimanager.dmg?a=1", "&", "b=2">>

Signatures == {<<>>, <<"MEUCIQ", "&", "\"", "'", "<", "==">>}

Length == <<"1234567">>

\* A changelog in the documented format: an unreleased section, a plain
\* section, a section whose text has markup-significant characters, and a
\* section whose date is no calendar date.
TheChangelog ==
    [exists |-> TRUE,
     lines |-> <<ParaLine(<<"# Changelog">>),
                 BlankLine,
                 UnrelLine,
                 BulletLine(<<"work in progress">>),
                 BlankLine,
                 VerLine(V215, <<2026, 1, 18>>),
                 SubLine(<<"Fixed">>),
                 BulletLine(<<"Fixed ", "**", "crash", "**", " on launch">>),
                 BlankLine,
                 VerLine(V214, <<2026, 1, 10>>),
                 SubLine(<<"Changed ", "&", " ", "<", "b", ">">>),
                 BulletLine(<<"Handle ", "]", "]", ">", " in ", "BACKTICK", "CDATA",
                              "BACKTICK", " ", "&", " ", "\"", "quotes", "\"">>),
                 BlankLine,
                 VerLine(V213, <<2026, 2, 30>>),
                 BulletLine(<<"Initial release">>)>>]

MissingChangelog == [exists |-> FALSE, lines |-> <<>>]

\* Lines a markdown text is made of: every kind of line, header and bullet
\* text with and without markup-significant characters and with whitespace
\* at the ends, a date line and a preamble line
SubFixed == SubLine(<<"Fixed">>)

SubMarkup == SubLine(<<" ", "Changed ", "&", " ", "<", "b", ">", " ", "\"", "q", "\"", " ">>)

BulletCrash == BulletLine(<<"Fixed ", "**", "crash", "**", " on launch">>)

BulletMarkup ==
    BulletLine(<<" ", "Use ", "<", "b", ">", " ", "&", " ", "BACKTICK", "**", "x", "**",
                 "BACKTICK", " ">>)

ParaMarkup == ParaLine(<<" ", "see ", "<", "i", ">", " ", "&", " more">>)

ParaDate == ParaLine(<<"-2026-01-18">>)

H2Other == H2Line(<<"[", "Notes", "]", " - 2026-01-01", " ">>)

LineAlphabet ==
    {BlankLine, SubFixed, SubMarkup, BulletCrash, BulletMarkup, ParaMarkup, ParaDate,
     H2Other, UnrelLine, VerLine(V215, <<2026, 1, 18>>), VerLine(V214, <<2026, 1, 10>>)}

\* str.split('\n') gives at least one line
Documents == UNION {[1..n -> LineAlphabet] : n \in 1..MaxLines}

Changelogs == {TheChangelog, MissingChangelog}

\* The pieces of one item of a feed written by some tool: title, pubDate,
\* the version elements when withVer, an enclosure, the description piece,
\* then further children.
FeedItem(v, withVer, sig, type, desc, more) ==
    <<Tag("item"), Leaf("title", v), Leaf("pubDate", <<"Mon, 05 Jan 2026 00:00:00 +0000">>)>>
    \o (IF withVer
        THEN <<Leaf("sparkle:version", v), Leaf("sparkle:shortVersionString", v),
               Leaf("sparkle:minimumSystemVersion", <<"14.0">>)>>
        ELSE <<>>)
    \o <<Piece("enclosure", <<>>,
               <<"url", "length", "type">>
                 \o (IF sig # <<>> THEN <<"sparkle:edSignature">> ELSE <<>>),
               <<<<"https://example.com/old.dmg">>, <<"5">>, type>>
                 \o (IF sig # <<>> THEN <<sig>> ELSE <<>>)),
         desc>>
    \o more \o <<Tag("/item")>>

Feed(children) ==
    FileOf(<<XmlDecl, RssOpen, Tag("channel")>> \o children \o <<Tag("/channel"), Tag("/rss")>>)

Octet == <<"application/octet-stream">>

OldNotes == Leaf("description[CDATA]", <<"<p>", "old notes", "</p>">>)

Item200 == FeedItem(<<"2.0.0">>, TRUE, <<"sig200", "&amp;", "==">>, Octet, OldNotes, <<>>)

Item190 == FeedItem(<<"1.9.0">>, TRUE, <<>>, Octet, OldNotes, <<>>)

FeedTitle == <<Leaf("title", <<"Notimanager">>)>>

\* a feed as this writer lays it out
GoodFeed == Feed(FeedTitle \o Item200 \o Item190)

\* a feed of another generator: another mime type, a <link> child, the
\* description as escaped text
ForeignFeed ==
    Feed(FeedTitle
         \o FeedItem(<<"2.0.0">>, TRUE, <<"sig200">>, <<"application/x-apple-diskimage">>,
                     Leaf("description", <<"&lt;", "p", "&gt;", "old">>),
                     <<Leaf("link", <<"https://example.com/notes">>)>>))

\* items without version elements and without signature
PlainFeed ==
    Feed(FeedTitle \o FeedItem(<<"2.0.0">>, FALSE, <<>>, Octet, OldNotes, <<>>)
         \o FeedItem(<<"1.9.0">>, FALSE, <<>>, Octet, OldNotes, <<>>))

\* an item before the title
ItemFirstFeed == Feed(Item200 \o FeedTitle \o Item190)

\* items and no title
NoTitleFeed == Feed(Item200)

\* an item without <enclosure> and <description>
MissingChildFeed ==
    Feed(FeedTitle \o Item200
         \o <<Tag("item"), Leaf("title", <<"1.9.0">>), Leaf("pubDate", <<"old">>), Tag("/item")>>)

\* a description holding the characters "]]>", escaped in the file
CDEndFeed ==
    Feed(FeedTitle
         \o FeedItem(<<"2.0.0">>, TRUE, <<"sig200">>, Octet,
                     Leaf("description", <<"a", "]", "]", "&gt;", "b">>), <<>>)
         \o Item190)

NoChannelFeed == FileOf(<<Piece("rss", <<>>, <<"version">>, <<<<"2.0">>>>), Tag("/rss")>>)

EmptyFile == FileOf(<<>>)

GarbageFile == FileOf(<<Tag("garbage")>>)

InitialFeeds ==
    {AbsentFile, EmptyFile, GarbageFile, NoChannelFeed, GoodFeed, ForeignFeed,
     PlainFeed, ItemFirstFeed, NoTitleFeed, MissingChildFeed, CDEndFeed}

-----------------------------------------------------------------------------
(* The state machine: runs of main, and the clock *)

NoOutput == [by |-> "none", version |-> <<>>, html |-> <<>>]

NoCleanup ==
    /\ swift_file = <<>>
    /\ content = <<>>
    /\ method = 0
    /\ removed_count = 0
    /\ original = <<>>

NoRun ==
    [status |-> "none", version |-> <<>>, signature |-> <<>>, at |-> 0,
     before |-> AbsentFile, prevStatus |-> "none", prevVersion |-> <<>>,
     prevSignature |-> <<>>]

Init ==
    /\ appcast \in InitialFeeds
    /\ changelog \in Changelogs
    /\ now = 0
    /\ runs = 0
    /\ completed = 0
    /\ initial = appcast
    /\ last = NoRun
    /\ doc = <<>>
    /\ rendered = NoOutput
    /\ NoCleanup

Record(status, version, signature) ==
    [status |-> status, version |-> version, signature |-> signature, at |-> now,
     before |-> appcast, prevStatus |-> last.status, prevVersion |-> last.version,
     prevSignature |-> last.signature]

\* main without the test of line 390: update_appcast runs on the missing changelog
MainMissingChangelog_unguarded(version, signature) ==
    /\ runs < MaxRuns
    /\ ~changelog.exists
    /\ LET r == update_appcast(appcast, version, Url, signature, Length, changelog, now)
       IN  /\ appcast' = r.file
           /\ completed' = IF r.status = "ok" THEN completed + 1 ELSE completed
           /\ last' = Record(r.status, version, signature)
    /\ runs' = runs + 1
    /\ UNCHANGED <<changelog, now, initial, doc, rendered, cleanupVars>>

\* main, lines 390-392: no changelog, exit status 1
MainMissingChangelog(version, signature) ==
    /\ runs < MaxRuns
    /\ ~changelog.exists
    /\ runs' = runs + 1
    /\ last' = Record("exit1", version, signature)
    /\ UNCHANGED <<appcast, changelog, now, completed, initial, doc, rendered, cleanupVars>>

\* main, lines 394-401: update_appcast
MainUpdate(version, signature) ==
    /\ runs < MaxRuns
    /\ changelog.exists
    /\ LET r == update_appcast(appcast, version, Url, signature, Length, changelog, now)
       IN  /\ appcast' = r.file
           /\ completed' = IF r.status = "ok" THEN completed + 1 ELSE completed
           /\ last' = Record(r.status, version, signature)
    /\ runs' = runs + 1
    /\ UNCHANGED <<changelog, now, initial, doc, rendered, cleanupVars>>

Tick ==
    /\ now < MaxClock
    /\ now' = now + 1
    /\ UNCHANGED <<appcast, changelog, runs, completed, initial, last, doc, rendered, cleanupVars>>

Next ==
    \/ \E signature \in Signatures, version \in Versions :
          MainMissingChangelog(version, signature)
    \/ \E signature \in Signatures, version \in Versions :
          MainUpdate(version, signature)
    \/ Tick

Spec == Init /\ [][Next]_vars

-----------------------------------------------------------------------------
(* Full regeneration.  The reconciliation mode that rebuilds the whole     *)
(* feed from the changelog is not in the scripts modelled above; it is     *)
(* modelled from its specification: one item per version record of the    *)
(* changelog, in changelog order, the released version with the real       *)
(* enclosure and every other version with a placeholder enclosure.         *)

\* the version records of a changelog: its version headers, in order
VersionRecords(cl) == SelectSeq(cl.lines, LAMBDA l : l.k = "ver")

\* the placeholder download location of a version that is not released
PlaceholderUrl(version) == <<"https://example.com/releases/Notimanager-">> \o version \o <<".dmg">>

\* the pieces of the item of one version record
RegenItem(rec, version, url, signature, length, cl, n) ==
    LET real == rec.ver = version
        sig  == IF real THEN signature ELSE <<>>
    IN  <<Tag("item"), Leaf("title", escape(rec.ver)),
          Leaf("pubDate", PubDate(cl, rec.ver, n)),
          Leaf("sparkle:version", escape(rec.ver)),
          Leaf("sparkle:shortVersionString", escape(rec.ver)),
          Leaf("sparkle:minimumSystemVersion", <<"14.0">>),
          Piece("enclosure", <<>>,
                <<"url", "length", "type">>
                  \o (IF sig # <<>> THEN <<"sparkle:edSignature">> ELSE <<>>),
                <<escape(IF real THEN url ELSE PlaceholderUrl(rec.ver)),
                  escape(IF real THEN length ELSE <<"0">>), Octet>>
                  \o (IF sig # <<>> THEN <<escape(sig)>> ELSE <<>>)),
          Leaf("description", escape(get_release_notes(cl, rec.ver))),
          Tag("/item")>>

\* the feed as regenerated with the existing items kept in front
regenerate_appcast_keeps_feed(file, version, url, signature, length, cl, n) ==
    LET recs == VersionRecords(cl)
        old  == IF file.exists /\ Len(file.bytes) > 5
                THEN SubSeq(file.bytes, 4, Len(file.bytes) - 2) ELSE <<>>
    IN  Feed(old \o FeedTitle
             \o Flatten([i \in 1..Len(recs) |->
                            RegenItem(recs[i], version, url, signature, length, cl, n)]))

\* the complete document, whatever the feed file held
regenerate_appcast(file, version, url, signature, length, cl, n) ==
    LET recs == VersionRecords(cl)
    IN  Feed(FeedTitle
             \o Flatten([i \in 1..Len(recs) |->
                            RegenItem(recs[i], version, url, signature, length, cl, n)]))

NoUnreleasedChangelog ==
    [exists |-> TRUE, lines |-> SubSeq(TheChangelog.lines, 6, Len(TheChangelog.lines))]

OneVersionChangelog == [exists |-> TRUE, lines |-> SubSeq(TheChangelog.lines, 1, 9)]

NoVersionChangelog == [exists |-> TRUE, lines |-> SubSeq(TheChangelog.lines, 1, 5)]

RegenChangelogs ==
    {TheChangelog, NoUnreleasedChangelog, OneVersionChangelog, NoVersionChangelog}

RegenInit ==
    /\ appcast \in InitialFeeds
    /\ changelog \in RegenChangelogs
    /\ now = 0
    /\ runs = 0
    /\ completed = 0
    /\ initial = appcast
    /\ last = NoRun
    /\ doc = <<>>
    /\ rendered = NoOutput
    /\ NoCleanup

Regenerate(version, signature) ==
    /\ runs < MaxRuns
    /\ changelog.exists
    /\ appcast' = regenerate_appcast(appcast, version, Url, signature, Length, changelog, now)
    /\ completed' = completed + 1
    /\ last' = Record("regenerated", version, signature)
    /\ runs' = runs + 1
    /\ UNCHANGED <<changelog, now, initial, doc, rendered, cleanupVars>>

RegenNext ==
    \/ \E signature \in Signatures, version \in Versions : Regenerate(version, signature)
    \/ Tick

RegenSpec == RegenInit /\ [][RegenNext]_vars

-----------------------------------------------------------------------------
(* The renderers and get_release_notes as functions of a markdown text:   *)
(* one call on one text                                                    *)

RenderInit ==
    /\ doc \in Documents
    /\ rendered = NoOutput
    /\ NoCleanup
    /\ appcast = AbsentFile
    /\ changelog = MissingChangelog
    /\ now = 0
    /\ runs = 0
    /\ completed = 0
    /\ initial = AbsentFile
    /\ last = NoRun

\* generate_appcast_from_changelog.py: markdown_to_html(doc)
RenderBody ==
    /\ rendered.by = "none"
    /\ rendered' = [by |-> "body", version |-> <<>>, html |-> markdown_to_html(doc)]
    /\ UNCHANGED <<appcast, changelog, now, runs, completed, initial, last, doc, cleanupVars>>

\* markdown_to_html.py: markdown_to_html(doc), lines 122-123 of its main
RenderStandalone ==
    /\ rendered.by = "none"
    /\ rendered' = [by |-> "standalone", version |-> <<>>,
               html |-> markdown_to_html_standalone(doc)]
    /\ UNCHANGED <<appcast, changelog, now, runs, completed, initial, last, doc, cleanupVars>>

\* get_release_notes on a changelog file that holds doc
GetReleaseNotes(version) ==
    /\ rendered.by = "none"
    /\ rendered' = [by |-> "notes", version |-> version,
               html |-> get_release_notes([exists |-> TRUE, lines |-> doc], version)]
    /\ UNCHANGED <<appcast, changelog, now, runs, completed, initial, last, doc, cleanupVars>>

RenderNext ==
    \/ RenderBody
    \/ RenderStandalone
    \/ \E version \in {V215, V214} : GetReleaseNotes(version)

RenderSpec == RenderInit /\ [][RenderNext]_vars

-----------------------------------------------------------------------------
(* What a reader of the feed file sees *)

Parsed(file) ==
    IF file.exists /\ Len(file.bytes) > 0 THEN ET_parse(file.bytes) ELSE ParseError

HasChannel(file) == Parsed(file).ok /\ HasChild(Parsed(file).root, "channel")

Items(file) ==
    IF HasChannel(file)
    THEN SelectTag(Find(Parsed(file).root, "channel").kids, "item")
    ELSE <<>>

ItemComplete(item) ==
    /\ \A tag \in {"title", "pubDate"} : HasChild(item, tag) /\ ChildText(item, tag) # <<>>
    /\ \A tag \in NsNames : HasChild(item, tag) => ChildText(item, tag) # <<>>
    /\ HasChild(item, "enclosure")
    /\ HasChild(item, "description")

\* a well-formed feed: it parses, has a channel with a title, and every item
\* has its title, date, enclosure and description
WellFormedFeed(file) ==
    /\ HasChannel(file)
    /\ ChildText(Find(Parsed(file).root, "channel"), "title") # <<>>
    /\ \A i \in 1..Len(Items(file)) : ItemComplete(Items(file)[i])

SignatureOf(item) ==
    IF HasChild(item, "enclosure")
    THEN Attr(Find(item, "enclosure"), "{sparkle}edSignature", <<>>)
    ELSE <<>>

\* the version an item is for: its sparkle:version element, else its title
VersionOf(item) ==
    IF HasChild(item, "{sparkle}version") THEN ChildText(item, "{sparkle}version")
    ELSE IF HasChild(item, "sparkle:version") THEN ChildText(item, "sparkle:version")
    ELSE ChildText(item, "title")

\* every field of an item, but not the order of its children
OtherKids(item) ==
    {item.kids[i] : i \in {j \in 1..Len(item.kids) :
        item.kids[j].tag \notin {"title", "pubDate", "description", "enclosure"} \cup NsNames}}

ItemView(item) ==
    [title |-> ChildText(item, "title"),
     pubDate |-> ChildText(item, "pubDate"),
     version |-> ChildText(item, "{sparkle}version"),
     shortVersionString |-> ChildText(item, "{sparkle}shortVersionString"),
     minimumSystemVersion |-> ChildText(item, "{sparkle}minimumSystemVersion"),
     description |-> ChildText(item, "description"),
     enclosure |-> IF HasChild(item, "enclosure")
                   THEN LET e == Find(item, "enclosure")
                        IN  {<<e.an[i], e.av[i]>> : i \in 1..Len(e.an)}
                   ELSE {},
     others |-> OtherKids(item)]

MapSeq(s, F(_)) == [i \in 1..Len(s) |-> F(s[i])]

VersionSig(item) == <<VersionOf(item), SignatureOf(item)>>

RECURSIVE IsSubseq(_, _)
IsSubseq(a, b) ==
    IF a = <<>> THEN TRUE
    ELSE IF b = <<>> THEN FALSE
    ELSE IF Head(a) = Head(b) THEN IsSubseq(Tail(a), Tail(b))
    ELSE IsSubseq(a, Tail(b))

Ran == last.status \in {"ok", "error"}

\* the tree the last run of update_appcast built
LastTree == BuildTree(last.before, last.version, Url, last.signature, Length, changelog, last.at)

\* the item the last run built
LastItem == NewItem(last.version, Url, last.signature, Length, changelog, last.at)

CompleteDocument(file) ==
    /\ file.exists
    /\ Len(file.bytes) >= 5
    /\ SubSeq(file.bytes, 1, 3) = <<XmlDecl, RssOpen, Tag("channel")>>
    /\ SubSeq(file.bytes, Len(file.bytes) - 1, Len(file.bytes)) = <<Tag("/channel"), Tag("/rss")>>

-----------------------------------------------------------------------------
(* Claims *)

\* C1: for every well-formed existing feed and every call of update_appcast
\* on it, each item of the feed before the call is in the written feed
\* afterwards with the same edSignature value (none stays none), also after
\* any number of successive appends.
C1_SignaturesPreserved ==
    /\ (Ran /\ WellFormedFeed(last.before))
          => IsSubseq(MapSeq(Items(last.before), VersionSig), MapSeq(Items(appcast), VersionSig))
    /\ WellFormedFeed(initial)
          => IsSubseq(MapSeq(Items(initial), VersionSig), MapSeq(Items(appcast), VersionSig))

\* C2: starting from a well-formed feed holding k items, after n completed
\* runs of update_appcast the persisted feed holds exactly k+n items, and the
\* k original items appear in their original relative order.
C2_NoEntryLost ==
    WellFormedFeed(initial)
       => /\ Len(Items(appcast)) = Len(Items(initial)) + completed
          /\ IsSubseq(MapSeq(Items(initial), VersionOf), MapSeq(Items(appcast), VersionOf))

\* C3: after any run of update_appcast, completed or aborted partway, the
\* feed file holds exactly its previous content or the complete new
\* document, never a partial document.
C3_AtomicWrite ==
    Ran => appcast = last.before \/ CompleteDocument(appcast)

\* C4: in every feed reachable by runs of update_appcast from an absent or
\* empty feed, no two items carry the same version string.
C4_UniqueVersions ==
    initial \in {AbsentFile, EmptyFile}
       => \A i, j \in 1..Len(Items(appcast)) :
             i # j => VersionOf(Items(appcast)[i]) # VersionOf(Items(appcast)[j])

\* C5: a second run of update_appcast with the same changelog, version, url,
\* signature and length leaves the feed file byte-identical to what the
\* first run produced.
C5_RerunIdempotent ==
    (/\ last.status = "ok"
     /\ last.prevStatus = "ok"
     /\ last.version = last.prevVersion
     /\ last.signature = last.prevSignature)
       => appcast = last.before

\* C6: after every completed run the item of the released version is the
\* first item of the channel in the written feed, immediately after the
\* channel title and before every item that was there.
C6_NewItemFirst ==
    last.status = "ok"
       => LET b == appcast.bytes
              new == RunSteps(ItemSteps(LastItem), <<>>).bytes
          IN  /\ b[4].t = "title"
              /\ Len(b) >= 4 + Len(new)
              /\ SubSeq(b, 5, 4 + Len(new)) = new

\* C7: every item of a well-formed existing feed has the same title,
\* pubDate, version, shortVersionString, minimumSystemVersion, description
\* text, enclosure attributes and other children in the written feed.
C7_PriorEntriesUntouched ==
    (Ran /\ WellFormedFeed(last.before))
       => IsSubseq(MapSeq(Items(last.before), ItemView), MapSeq(Items(appcast), ItemView))

\* a feed file that is absent, zero-length, not XML, or incomplete
DegenerateFeed(file) ==
    \/ ~file.exists
    \/ file.bytes = <<>>
    \/ ~Parsed(file).ok
    \/ ~WellFormedFeed(file)

\* C8: on a feed file that is absent, empty, unparseable or structurally
\* incomplete, update_appcast completes and writes a well-formed feed that
\* contains the item of the new version.
C8_DegenerateFeedStartsEmpty ==
    (Ran /\ DegenerateFeed(last.before))
       => /\ last.status = "ok"
          /\ WellFormedFeed(appcast)
          /\ \E i \in 1..Len(Items(appcast)) : VersionOf(Items(appcast)[i]) = last.version

VersionSigNotes(item) ==
    <<VersionOf(item), SignatureOf(item), ChildText(item, "description")>>

\* C9: parsing a feed written by update_appcast succeeds and recovers the
\* same sequence of versions with the same enclosure signatures and the same
\* description text as the document that was written.
C9_RoundTrip ==
    last.status = "ok"
       => /\ Parsed(appcast).ok
          /\ MapSeq(Items(appcast), VersionSigNotes)
                = MapSeq(SelectTag(LastTree.channel.kids, "item"), VersionSigNotes)

\* C10: when the changelog has no section for the requested version,
\* get_release_notes returns the placeholder, and update_appcast completes
\* and writes a feed whose new item has the placeholder as description.
C10_MissingVersionPlaceholder ==
    (Ran /\ VersionMatch(changelog.lines, last.version) = 0)
       => /\ get_release_notes(changelog, last.version) = NoNotes
          /\ last.status = "ok"
          /\ \E i \in 1..Len(Items(appcast)) :
                /\ VersionOf(Items(appcast)[i]) = last.version
                /\ ChildText(Items(appcast)[i], "description") = NoNotes

\* C11: when the changelog file does not exist, every run of main ends with
\* exit status 1 before update_appcast is called, and the feed file is
\* neither created nor modified.
C11_MissingChangelogFatal ==
    (runs > 0 /\ ~changelog.exists)
       => /\ last.status = "exit1"
          /\ completed = 0
          /\ appcast = last.before
          /\ appcast = initial

C11_Witness ==
    /\ runs = MaxRuns
    /\ ~changelog.exists
    /\ last.status = "exit1"
    /\ last.prevStatus = "exit1"
    /\ ~appcast.exists

\* the pubDate the last run gave its item, and the header it matched
LastPubDate == ChildText(LastItem, "pubDate")

LastHeader == VersionMatch(changelog.lines, last.version)

\* C12: the new item's pubDate is the date of the version's changelog header
\* at 00:00:00 +0000 when that date is a valid calendar date; when the
\* version is absent or the date is not a calendar date, nothing is raised
\* and the pubDate is the current date (at midnight) or the current instant.
\* The item written to the feed carries that pubDate.
C12_PubDate ==
    Ran =>
       /\ (LastHeader # 0 /\ ValidDate(changelog.lines[LastHeader].date))
             => LastPubDate = FormatDate(changelog.lines[LastHeader].date, "00:00:00")
       /\ (last.version = V215 /\ changelog = TheChangelog)
             => LastPubDate = <<"Sun, 18 Jan 2026 00:00:00 +0000">>
       /\ LastHeader = 0
             => LastPubDate = FormatDate(Today(last.at), "00:00:00")
       /\ (LastHeader # 0 /\ ~ValidDate(changelog.lines[LastHeader].date))
             => LastPubDate = FormatDate(Today(last.at), TimeOfDay(last.at))
       /\ (last.status = "ok" /\ Parsed(appcast).ok)
             => \E i \in 1..Len(Items(appcast)) :
                   /\ ChildText(Items(appcast)[i], "title") = last.version
                   /\ ChildText(Items(appcast)[i], "pubDate") = LastPubDate

C12_Witness ==
    /\ last.status = "ok"
    /\ last.version = V213
    /\ ~ValidDate(changelog.lines[LastHeader].date)
    /\ last.at = MaxClock
    /\ last.prevStatus = "ok"
    /\ last.prevVersion = V215
    /\ Parsed(appcast).ok
    /\ \E i \in 1..Len(Items(appcast)) :
          ChildText(Items(appcast)[i], "pubDate") = <<"Sun, 18 Jan 2026 00:00:00 +0000">>

-----------------------------------------------------------------------------
(* Claims about the renderers *)

\* str.split('\n') of a rendered text
RECURSIVE OutputLines(_)
OutputLines(html) ==
    LET i == IndexOfFirst(html, LAMBDA u : u = "\n")
    IN  IF i = 0 THEN <<html>>
        ELSE <<SubSeq(html, 1, i - 1)>> \o OutputLines(SubSeq(html, i + 1, Len(html)))

Ul == <<"<ul>">>

UlEnd == <<"</ul>">>

\* the nearest non-blank line before / after line i, or <<>> when there is none
RECURSIVE PrevNonBlank(_, _)
PrevNonBlank(L, i) ==
    IF i <= 1 THEN <<>> ELSE IF L[i - 1] # <<>> THEN L[i - 1] ELSE PrevNonBlank(L, i - 1)

RECURSIVE NextNonBlank(_, _)
NextNonBlank(L, i) ==
    IF i >= Len(L) THEN <<>> ELSE IF L[i + 1] # <<>> THEN L[i + 1] ELSE NextNonBlank(L, i + 1)

Count(L, x) == Cardinality({i \in 1..Len(L) : L[i] = x})

CountLi(L) == Cardinality({i \in 1..Len(L) : IsLi(L[i])})

IsContent(line) == line # <<>> /\ ~IsLi(line) /\ line \notin {Ul, UlEnd}

Renderers == {"body", "standalone"}

RenderedLines == OutputLines(rendered.html)

\* consecutive list entries share one container: it opens right before the
\* first entry after content or the start, and closes before the first
\* content line after the entries or at the end
GroupedLists(L) ==
    \A i \in 1..Len(L) :
       /\ IsLi(L[i]) => /\ PrevNonBlank(L, i) = Ul \/ IsLi(PrevNonBlank(L, i))
                        /\ NextNonBlank(L, i) = UlEnd \/ IsLi(NextNonBlank(L, i))
       /\ L[i] = Ul => /\ i < Len(L) /\ IsLi(L[i + 1])
                       /\ PrevNonBlank(L, i) = <<>> \/ IsContent(PrevNonBlank(L, i))
       /\ L[i] = UlEnd => /\ IsLi(PrevNonBlank(L, i))
                          /\ i = Len(L) \/ IsContent(L[i + 1])

AllBullets == \A i \in 1..Len(doc) : doc[i].k = "bullet"

\* C13: in the output of either markdown_to_html consecutive list entries
\* are wrapped in one container that opens on the first entry after non-list
\* content or the start and closes on the first non-list, non-blank content
\* or at the end; three bullet lines give one <ul> and one </ul> around the
\* three entries, and a subsection header between two bullets gives two
\* containers.
C13_ListGrouping ==
    rendered.by \in Renderers =>
       /\ GroupedLists(RenderedLines)
       /\ CountLi(RenderedLines) = Cardinality({i \in 1..Len(doc) : doc[i].k = "bullet"})
       /\ (Len(doc) = 3 /\ AllBullets)
             => /\ Len(RenderedLines) = 5
                /\ RenderedLines[1] = Ul
                /\ \A i \in 2..4 : IsLi(RenderedLines[i])
                /\ RenderedLines[5] = UlEnd
       /\ (Len(doc) = 3 /\ doc[1].k = "bullet" /\ doc[2].k = "sub" /\ doc[3].k = "bullet")
             => /\ Count(RenderedLines, Ul) = 2
                /\ Count(RenderedLines, UlEnd) = 2
                /\ RenderedLines[3] = UlEnd
                /\ RenderedLines[5] = Ul

C13_Witness ==
    /\ rendered.by = "body"
    /\ doc = <<BulletCrash, BlankLine, BulletMarkup>>
    /\ Count(RenderedLines, Ul) = 1
    /\ Count(RenderedLines, UlEnd) = 1
    /\ CountLi(RenderedLines) = 2

\* C14: the output of either renderer has no literal '&', '<' or '>' taken
\* from the text of a header, a bullet or a plain line: every such character
\* is escaped, and the only markup is the renderer's own elements.
C14_MarkupEscaped ==
    rendered.by \in Renderers =>
       \A i \in 1..Len(rendered.html) : rendered.html[i] \notin {"&", "<", ">"}

IsHeader(l) == l.k \in {"ver", "unrel", "h2"}

\* the header line that line i of doc stands under, or 0
OwnerOf(i) ==
    IF \E j \in 1..(i - 1) : IsHeader(doc[j])
    THEN CHOOSE j \in 1..(i - 1) :
            IsHeader(doc[j]) /\ \A m \in (j + 1)..(i - 1) : ~IsHeader(doc[m])
    ELSE 0

\* the content lines of the unreleased sections, and of the section of `version`
UnreleasedLines ==
    {i \in 1..Len(doc) : ~IsHeader(doc[i]) /\ OwnerOf(i) # 0 /\ doc[OwnerOf(i)].k = "unrel"}

SectionLines(version) ==
    {i \in 1..Len(doc) :
        /\ ~IsHeader(doc[i])
        /\ OwnerOf(i) # 0
        /\ OwnerOf(i) = VersionMatch(doc, version)}

\* the visible elements the lines `from` render to under either renderer
ElementsOf(from) ==
    {e \in UNION {{HtmlLine(doc[i]), StandaloneHtmlLine(doc[i])} : i \in from} :
        e # <<>> /\ e # << <<>> >>}

\* some element of the lines `foreign`, which none of the lines `own` renders
\* to, is a line of the rendered text
Leak(foreign, own) ==
    \E e \in ElementsOf(foreign) \ ElementsOf(own) :
       \E i \in 1..Len(RenderedLines) : RenderedLines[i] = e[1]

NotesLeak == Leak((1..Len(doc)) \ SectionLines(rendered.version), SectionLines(rendered.version))

StandaloneLeak == Leak(UnreleasedLines, (1..Len(doc)) \ UnreleasedLines)

\* C15: the content of an unreleased section never leaks: the notes
\* get_release_notes renders for a released version hold no line of an
\* unreleased section or of another version's section, and the output of the
\* standalone renderer holds no line of an unreleased section.
C15_UnreleasedNeverLeaks ==
    /\ rendered.by = "notes" => ~NotesLeak
    /\ rendered.by = "standalone" => ~StandaloneLeak

\* the lines of the rendered text that are elements: not blank, not a container marker
ElementLines == SelectSeq(RenderedLines, LAMBDA line : line # <<>> /\ line \notin {Ul, UlEnd})

Recognized == SelectSeq(doc, LAMBDA l : l.k \in {"sub", "bullet"})

Inner(line) == SubSeq(line, 2, Len(line) - 1)

\* the element is what the claim says line l becomes
ElementFor(l, line) ==
    IF l.k = "sub"
    THEN /\ Len(line) >= 2 /\ Head(line) = "<h4>" /\ line[Len(line)] = "</h4>"
         /\ XmlDecode(Inner(line)) = strip(l.text)
    ELSE /\ Len(line) >= 2 /\ Head(line) = "<li>" /\ line[Len(line)] = "</li>"
         /\ Inner(line) = PairSub(PairSub(strip(l.text), "**", "<strong>", "</strong>"),
                                  "BACKTICK", "<code>", "</code>")

FixedExample ==
    <<"<h4>", "Fixed", "</h4>", "\n", "<ul>", "\n",
      "<li>", "Fixed ", "<strong>", "crash", "</strong>", " on launch", "</li>", "\n", "</ul>">>

\* C16: the output of markdown_to_html is, in order, one element per '### '
\* line (an <h4> holding the trimmed text) and per bullet line (one <li>,
\* bold replaced before code); blank lines add only empty lines and other
\* lines add nothing; '### Fixed' and '- Fixed **crash** on launch' render
\* to the <h4>, <ul>, <li>, </ul> lines of the example, also as the notes of
\* a version whose section they are.
C16_InOrderElements ==
    /\ rendered.by = "body" =>
          /\ Len(ElementLines) = Len(Recognized)
          /\ \A i \in 1..Len(Recognized) : ElementFor(Recognized[i], ElementLines[i])
          /\ IF Recognized = <<>> /\ \A i \in 1..Len(doc) : doc[i].k # "blank"
             THEN rendered.html = <<>>
             ELSE Count(RenderedLines, <<>>) = Count(doc, BlankLine)
          /\ doc = <<SubFixed, BulletCrash>> => rendered.html = FixedExample
    /\ (rendered.by = "notes" /\ doc = <<VerLine(rendered.version, <<2026, 1, 18>>), SubFixed, BulletCrash>>)
          => rendered.html = DocHead \o FixedExample \o DocTail

C16_Witness ==
    /\ rendered.by = "body"
    /\ doc = <<SubFixed, BulletCrash>>
    /\ rendered.html = FixedExample

Regenerated == last.status = "regenerated"

EnclosureOf(item) == Find(item, "enclosure")

\* C17: after full regeneration the feed has one item per version record
\* of the changelog, in changelog order, whatever feed was persisted before;
\* the item of the released version has the real url, length and signature,
\* every other item a placeholder enclosure: a url containing its version,
\* length zero, no signature attribute.
C17_FullRegeneration ==
    Regenerated =>
       LET recs  == VersionRecords(changelog)
           items == Items(appcast)
       IN  /\ Parsed(appcast).ok
           /\ Len(items) = Len(recs)
           /\ \A i \in 1..Len(recs) :
                 /\ VersionOf(items[i]) = recs[i].ver
                 /\ HasChild(items[i], "enclosure")
                 /\ IF recs[i].ver = last.version
                    THEN /\ Attr(EnclosureOf(items[i]), "url", <<>>) = Url
                         /\ Attr(EnclosureOf(items[i]), "length", <<>>) = Length
                         /\ SignatureOf(items[i]) = last.signature
                    ELSE /\ IsSubseq(recs[i].ver, Attr(EnclosureOf(items[i]), "url", <<>>))
                         /\ Attr(EnclosureOf(items[i]), "length", <<>>) = <<"0">>
                         /\ ~HasAttr(EnclosureOf(items[i]), "{sparkle}edSignature")
           /\ appcast = regenerate_appcast(AbsentFile, last.version, Url, last.signature,
                                           Length, changelog, last.at)

C17_Witness ==
    /\ Regenerated
    /\ last.before = GoodFeed
    /\ changelog = TheChangelog
    /\ last.version = V214
    /\ last.signature # <<>>
    /\ MapSeq(Items(appcast), VersionOf) = <<V215, V214, V213>>

\* containers open after line i of L: <ul> lines less </ul> lines among L[1..i]
Depth(L, i) ==
    Cardinality({j \in 1..i : L[j] = Ul}) - Cardinality({j \in 1..i : L[j] = UlEnd})

\* C18: in the output lines of either markdown_to_html, <ul> and </ul>
\* alternate, starting with <ul> and ending with </ul>: never nested, never
\* left open; every <li> line is inside an open container and every
\* container holds at least one <li>.
C18_ContainersWellFormed ==
    rendered.by \in Renderers =>
       LET L == RenderedLines
       IN  /\ \A i \in 1..Len(L) : Depth(L, i) \in {0, 1}
           /\ Depth(L, Len(L)) = 0
           /\ \A i \in 1..Len(L) : IsLi(L[i]) => Depth(L, i) = 1
           /\ \A i \in 1..Len(L) :
                 L[i] = Ul => \E j \in (i + 1)..Len(L) :
                                 /\ IsLi(L[j])
                                 /\ \A m \in (i + 1)..j : L[m] # UlEnd

C18_Witness ==
    /\ rendered.by = "standalone"
    /\ doc = <<BulletCrash, ParaMarkup, BulletMarkup>>
    /\ Count(RenderedLines, Ul) = 2
    /\ Count(RenderedLines, UlEnd) = 2
    /\ RenderedLines[Len(RenderedLines)] = UlEnd

BodyKinds == {"sub", "bullet", "blank"}

PlainHeader(l) ==
    l.k = "sub" => \A i \in 1..Len(l.text) : l.text[i] \notin {"&", "<", ">", "\"", "'"}

\* doc in the changelog body format: headers without markup characters,
\* bullets and blank lines only
BodyFormat == \A i \in 1..Len(doc) : doc[i].k \in BodyKinds /\ PlainHeader(doc[i])

BodyLinesOf(d) == SelectSeq(d, LAMBDA l : l.k \in BodyKinds)

\* what the standalone renderer makes of a line that is no body line:
\* nothing, an <h3> element, or a <p> element with its text escaped
OtherLineRendering(l) ==
    LET e == StandaloneHtmlLine(l)
    IN  \/ e = <<>>
        \/ /\ Len(e) = 1 /\ Head(e[1]) = "<h3>" /\ l.k \in {"ver", "h2"}
        \/ /\ Len(e) = 1 /\ Head(e[1]) = "<p>" /\ l.k = "para"
           /\ \A i \in 1..Len(e[1]) : e[1][i] \notin {"&", "<", ">"}
           /\ XmlDecode(Inner(e[1])) = l.text

\* C19: on a text of '### ' headers without '&', '<', '>' or quotes, bullet
\* lines and blank lines the two markdown_to_html functions return the same
\* output; they differ only where there are other lines, which the first
\* drops and the second renders as <h3> or as <p> with escaped text, or
\* where a header has such characters.
C19_RenderersAgree ==
    rendered.by \in Renderers =>
       /\ BodyFormat => /\ markdown_to_html(doc) = markdown_to_html_standalone(doc)
                        /\ rendered.html = markdown_to_html_standalone(doc)
                        /\ rendered.html = markdown_to_html(doc)
       /\ markdown_to_html(doc) # markdown_to_html_standalone(doc)
             => \E i \in 1..Len(doc) :
                   \/ ~PlainHeader(doc[i])
                   \/ doc[i].k \notin BodyKinds /\ StandaloneHtmlLine(doc[i]) # <<>>
       /\ \A i \in 1..Len(doc) :
             doc[i].k \notin BodyKinds
                => HtmlLine(doc[i]) = <<>> /\ OtherLineRendering(doc[i])
       /\ rendered.by = "body" => rendered.html = markdown_to_html(BodyLinesOf(doc))

C19_Witness ==
    /\ rendered.by = "standalone"
    /\ doc = <<SubFixed, BulletMarkup, BlankLine>>
    /\ BodyFormat
    /\ rendered.html = markdown_to_html(doc)
    /\ Len(rendered.html) > 10

-----------------------------------------------------------------------------
(* cleanup_notification_mover.py.  The swift text is a sequence of         *)
(* characters, each a one-character string.                                *)

\* line 72: the characters skipped after the closing brace
Whitespace == {"\n", " ", "\t"}

\* lines 14-42
methods_to_remove ==
    <<
      \* private func getWindowIdentifier
      <<"p", "r", "i", "v", "a", "t", "e", " ", "f", "u", "n", "c", " ", "g", "e", "t", "W",
        "i", "n", "d", "o", "w", "I", "d", "e", "n", "t", "i", "f", "i", "e", "r">>,
      \* private func checkForWidgetChanges
      <<"p", "r", "i", "v", "a", "t", "e", " ", "f", "u", "n", "c", " ", "c", "h", "e", "c",
        "k", "F", "o", "r", "W", "i", "d", "g", "e", "t", "C", "h", "a", "n", "g", "e", "s">>,
      \* private func hasNotificationCenterUI
      <<"p", "r", "i", "v", "a", "t", "e", " ", "f", "u", "n", "c", " ", "h", "a", "s", "N",
        "o", "t", "i", "f", "i", "c", "a", "t", "i", "o", "n", "C", "e", "n", "t", "e", "r",
        "U", "I">>,
      \* private func findElementWithWidgetIdentifier
      <<"p", "r", "i", "v", "a", "t", "e", " ", "f", "u", "n", "c", " ", "f", "i", "n", "d",
        "E", "l", "e", "m", "e", "n", "t", "W", "i", "t", "h", "W", "i", "d", "g", "e", "t",
        "I", "d", "e", "n", "t", "i", "f", "i", "e", "r">>,
      \* private func calculateNewPosition
      <<"p", "r", "i", "v", "a", "t", "e", " ", "f", "u", "n", "c", " ", "c", "a", "l", "c",
        "u", "l", "a", "t", "e", "N", "e", "w", "P", "o", "s", "i", "t", "i", "o", "n">>,
      \* private func getWindowTitle
      <<"p", "r", "i", "v", "a", "t", "e", " ", "f", "u", "n", "c", " ", "g", "e", "t", "W",
        "i", "n", "d", "o", "w", "T", "i", "t", "l", "e">>,
      \* private func getPosition
      <<"p", "r", "i", "v", "a", "t", "e", " ", "f", "u", "n", "c", " ", "g", "e", "t", "P",
        "o", "s", "i", "t", "i", "o", "n">>,
      \* private func getSize
      <<"p", "r", "i", "v", "a", "t", "e", " ", "f", "u", "n", "c", " ", "g", "e", "t", "S",
        "i", "z", "e">>,
      \* private func setPosition
      <<"p", "r", "i", "v", "a", "t", "e", " ", "f", "u", "n", "c", " ", "s", "e", "t", "P",
        "o", "s", "i", "t", "i", "o", "n">>,
      \* private func getPositionableElement
      <<"p", "r", "i", "v", "a", "t", "e", " ", "f", "u", "n", "c", " ", "g", "e", "t", "P",
        "o", "s", "i", "t", "i", "o", "n", "a", "b", "l", "e", "E", "l", "e", "m", "e", "n",
        "t">>,
      \* private func verifyPositionSet
      <<"p", "r", "i", "v", "a", "t", "e", " ", "f", "u", "n", "c", " ", "v", "e", "r", "i",
        "f", "y", "P", "o", "s", "i", "t", "i", "o", "n", "S", "e", "t">>,
      \* private func findElementBySubrole
      <<"p", "r", "i", "v", "a", "t", "e", " ", "f", "u", "n", "c", " ", "f", "i", "n", "d",
        "E", "l", "e", "m", "e", "n", "t", "B", "y", "S", "u", "b", "r", "o", "l", "e">>,
      \* private func findNotificationElementFallback
      <<"p", "r", "i", "v", "a", "t", "e", " ", "f", "u", "n", "c", " ", "f", "i", "n", "d",
        "N", "o", "t", "i", "f", "i", "c", "a", "t", "i", "o", "n", "E", "l", "e", "m", "e",
        "n", "t", "F", "a", "l", "l", "b", "a", "c", "k">>,
      \* private func findElementByIdentifier
      <<"p", "r", "i", "v", "a", "t", "e", " ", "f", "u", "n", "c", " ", "f", "i", "n", "d",
        "E", "l", "e", "m", "e", "n", "t", "B", "y", "I", "d", "e", "n", "t", "i", "f", "i",
        "e", "r">>,
      \* private func findElementByRoleAndSize
      <<"p", "r", "i", "v", "a", "t", "e", " ", "f", "u", "n", "c", " ", "f", "i", "n", "d",
        "E", "l", "e", "m", "e", "n", "t", "B", "y", "R", "o", "l", "e", "A", "n", "d", "S",
        "i", "z", "e">>,
      \* private func findDeepestSizedElement
      <<"p", "r", "i", "v", "a", "t", "e", " ", "f", "u", "n", "c", " ", "f", "i", "n", "d",
        "D", "e", "e", "p", "e", "s", "t", "S", "i", "z", "e", "d", "E", "l", "e", "m", "e",
        "n", "t">>,
      \* private func findAnyElementWithSize
      <<"p", "r", "i", "v", "a", "t", "e", " ", "f", "u", "n", "c", " ", "f", "i", "n", "d",
        "A", "n", "y", "E", "l", "e", "m", "e", "n", "t", "W", "i", "t", "h", "S", "i", "z",
        "e">>,
      \* private func logElementDetails
      <<"p", "r", "i", "v", "a", "t", "e", " ", "f", "u", "n", "c", " ", "l", "o", "g", "E",
        "l", "e", "m", "e", "n", "t", "D", "e", "t", "a", "i", "l", "s">>,
      \* private func collectAllSubrolesInHierarchy
      <<"p", "r", "i", "v", "a", "t", "e", " ", "f", "u", "n", "c", " ", "c", "o", "l", "l",
        "e", "c", "t", "A", "l", "l", "S", "u", "b", "r", "o", "l", "e", "s", "I", "n", "H",
        "i", "e", "r", "a", "r", "c", "h", "y">>,
      \* fileprivate func dumpElementHierarchy
      <<"f", "i", "l", "e", "p", "r", "i", "v", "a", "t", "e", " ", "f", "u", "n", "c", " ",
        "d", "u", "m", "p", "E", "l", "e", "m", "e", "n", "t", "H", "i", "e", "r", "a", "r",
        "c", "h", "y">>
    >>

\* rf'\n    {method_signature}\('
Pattern(method_signature) == <<"\n", " ", " ", " ", " ">> \o method_signature \o <<"(">>

SignatureAt(text, i, method_signature) ==
    /\ i + Len(Pattern(method_signature)) - 1 <= Len(text)
    /\ SubSeq(text, i, i + Len(Pattern(method_signature)) - 1) = Pattern(method_signature)

\* re.search(pattern, content): the index of the newline of the first
\* match, or 0
SearchSignature(text, method_signature) ==
    IF \E i \in 1..Len(text) : SignatureAt(text, i, method_signature)
    THEN CHOOSE i \in 1..Len(text) :
            /\ SignatureAt(text, i, method_signature)
            /\ \A k \in 1..(i - 1) : ~SignatureAt(text, k, method_signature)
    ELSE 0

\* lines 59-63: brace_count after reading text[start..i]
BraceCount(text, start, i) ==
    Cardinality({k \in start..i : text[k] = "{"})
    - Cardinality({k \in start..i : text[k] = "}"})

\* lines 64-80: the index of the first closing brace that comes after an
\* opening brace and leaves brace_count at 0, or 0 when the text ends first
MethodEnd(text, start) ==
    LET Ends == {i \in start..Len(text) :
                    /\ text[i] = "}"
                    /\ \E k \in start..i : text[k] = "{"
                    /\ BraceCount(text, start, i) = 0}
    IN  IF Ends = {} THEN 0
        ELSE CHOOSE i \in Ends : \A k \in Ends : i <= k

\* lines 71-73: the index of the first character from j on that is no
\* whitespace, Len(text) + 1 when there is none
SkipWhitespace(text, j) ==
    LET Stops == {k \in j..Len(text) : text[k] \notin Whitespace}
    IN  IF Stops = {} THEN Len(text) + 1
        ELSE CHOOSE k \in Stops : \A m \in Stops : k <= m

\* lines 50-79 for one signature: [content, removed].  Indices count from
\* 1, so content[j+1:] of line 76 starts at index j + 1 here, one past the
\* first character that is no whitespace.
RemoveMethod(text, method_signature) ==
    LET start == SearchSignature(text, method_signature)
        i     == IF start = 0 THEN 0 ELSE MethodEnd(text, start)
    IN  IF start = 0 \/ i = 0 THEN [content |-> text, removed |-> FALSE]
        ELSE LET j == SkipWhitespace(text, i + 1)
             IN  [content |-> SubSeq(text, 1, start - 1) \o <<"\n">>
                               \o SubSeq(text, j + 1, Len(text)),
                  removed |-> TRUE]

\* A swift file: a class with some members
Indent == <<" ", " ", " ", " ">>

ClassOpen == <<"c", "l", "a", "s", "s", " ", "M", " ", "{">>

ClassClose == <<"\n", "}", "\n">>

Method(method_signature, body) ==
    <<"\n">> \o Indent \o method_signature \o <<"(", ")", " ", "{">> \o body
    \o <<"\n">> \o Indent \o <<"}">>

ReturnBody == <<"\n">> \o Indent \o Indent \o <<"r", "e", "t", "u", "r", "n">>

NestedBody == <<"\n">> \o Indent \o Indent \o <<"i", "f", " ", "a", " ", "{", " ", "b", " ", "}">>

Members ==
    {Method(methods_to_remove[8], ReturnBody),
     Method(methods_to_remove[7], NestedBody),
     Method(methods_to_remove[20], ReturnBody),
     Method(<<"f", "u", "n", "c", " ", "k", "e", "e", "p">>, NestedBody),
     <<"\n">> \o Indent \o <<"v", "a", "r", " ", "x">>,
     <<"\n">>}

SwiftFiles ==
    {ClassOpen \o Flatten(ms) \o ClassClose :
        ms \in UNION {[1..n -> Members] : n \in 1..MaxMembers}}

CleanupInit ==
    /\ swift_file \in SwiftFiles
    /\ original = swift_file
    /\ content = <<>>
    /\ method = 0
    /\ removed_count = 0
    /\ appcast = AbsentFile
    /\ changelog = MissingChangelog
    /\ now = 0
    /\ runs = 0
    /\ completed = 0
    /\ initial = AbsentFile
    /\ last = NoRun
    /\ doc = <<>>
    /\ rendered = NoOutput

\* lines 10-11
ReadSwiftFile ==
    /\ method = 0
    /\ content' = swift_file
    /\ method' = 1
    /\ UNCHANGED <<swift_file, removed_count, original>>
    /\ UNCHANGED <<appcast, changelog, now, runs, completed, initial, last, doc, rendered>>

\* lines 48-80: one turn of the loop
RemoveNext ==
    /\ method \in 1..Len(methods_to_remove)
    /\ LET r == RemoveMethod(content, methods_to_remove[method])
       IN  /\ content' = r.content
           /\ removed_count' = IF r.removed THEN removed_count + 1 ELSE removed_count
    /\ method' = method + 1
    /\ UNCHANGED <<swift_file, original>>
    /\ UNCHANGED <<appcast, changelog, now, runs, completed, initial, last, doc, rendered>>

\* lines 83-84
WriteSwiftFile ==
    /\ method = Len(methods_to_remove) + 1
    /\ swift_file' = content
    /\ method' = method + 1
    /\ UNCHANGED <<content, removed_count, original>>
    /\ UNCHANGED <<appcast, changelog, now, runs, completed, initial, last, doc, rendered>>

CleanupNext == ReadSwiftFile \/ RemoveNext \/ WriteSwiftFile

CleanupSpec == CleanupInit /\ [][CleanupNext]_vars

CleanupDone == method = Len(methods_to_remove) + 2

\* The definitions of the listed methods in text: for every place where a
\* listed signature stands, the indices from the signature line through
\* the brace-matched closing brace
DefinitionIndices(text) ==
    UNION {IF MethodEnd(text, i) = 0 THEN {} ELSE (i + 1)..MethodEnd(text, i) :
              i \in {k \in 1..Len(text) :
                        \E m \in 1..Len(methods_to_remove) :
                            SignatureAt(text, k, methods_to_remove[m])}}

NonWhitespace(text) == SelectSeq(text, LAMBDA c : c \notin Whitespace)

\* The characters of text at the indices not in skip, in order
Outside(text, skip) ==
    LET keep == SelectSeq([k \in 1..Len(text) |-> k], LAMBDA k : k \notin skip)
    IN  [n \in 1..Len(keep) |-> text[keep[n]]]

\* C20: once the cleanup has written the file back, every non-whitespace
\* character of the original file outside the listed methods' definitions
\* is still present, in order, in the written content.
C20_OnlyMethodsRemoved ==
    CleanupDone =>
        IsSubseq(NonWhitespace(Outside(original, DefinitionIndices(original))),
                 NonWhitespace(swift_file))

C20_Witness == CleanupDone /\ removed_count > 0

====
